---- MODULE Spec2Model ----
(***************************************************************************)
(* Model of functions_core_lib: the address formatter, the StripeClient    *)
(* facade over the remote customer directory, and the two request handlers *)
(* create_customer_function and delete_customer_by_email_function.         *)
(*                                                                         *)
(* Python values: a str-typed optional is a string or None; an optional    *)
(* dict is a function over its keys or NoneDict; an exception is a record  *)
(* with its type and its args (what str(e) prints).                        *)
(***************************************************************************)
EXTENDS Integers, Sequences, FiniteSets, TLC

VARIABLES
    address,      \* format_address: the argument
    formatted,    \* format_address: the returned dict (Unset before the call)
    fa_pc,        \* format_address: "ready" | "done"
    directory,    \* the remote service's customer records, oldest first
    nextId,       \* the remote service's id counter
    pc,           \* per invocation slot: "idle" | "start" | "searched" | "done"
    kind,         \* per slot: "create" | "delete"
    data,         \* per slot: the handler's input dict
    resp,         \* per slot: the ListObject returned by the search
    calls,        \* per slot: the client operations this invocation ran, in order
    ret,          \* per slot: how the invocation ended
    op            \* the last direct StripeClient operation and its outcome

vars == <<address, formatted, fa_pc, directory, nextId, pc, kind, data, resp,
          calls, ret, op>>

addrVars == <<address, formatted, fa_pc>>
svcVars == <<directory, nextId>>
handlerVars == <<pc, kind, data, resp, calls, ret>>

-----------------------------------------------------------------------------
(* Bounds *)

NumAddrValues == 2      \* distinct non-empty address field values
MaxCustomers == 2       \* cap on the ids the remote service ever assigns

-----------------------------------------------------------------------------
(* Python values *)

None == "<None>"
NoneDict == [py_none |-> TRUE]
EmptyDict == [k \in {} |-> ""]
Unset == [unset |-> TRUE]

\* str(x) inside an f-string
PyStr(x) == IF x = None THEN "None" ELSE x

StrTruthy_none_only(s) == s # None

\* truthiness of an optional str
StrTruthy(s) == s # None /\ s # ""

\* truthiness of an optional dict
DictTruthy(d) == d # NoneDict /\ DOMAIN d # {}

\* dict.get(key) on a dict of str values
DictGet(d, key) == IF key \in DOMAIN d THEN d[key] ELSE None

\* dict.get(key) where the value is a dict
DictGetDict(d, key) == IF key \in DOMAIN d THEN d[key] ELSE NoneDict

\* s contains sub
Contains(s, sub) ==
    \E i \in 1..(Len(s) - Len(sub) + 1) : SubSeq(s, i, i + Len(sub) - 1) = sub

-----------------------------------------------------------------------------
(* format_address *)

field_mapping_typo ==
    [city |-> "city", country |-> "country", street1 |-> "line1",
     street2 |-> "line1", zipCode |-> "postal_code", state |-> "state"]

field_mapping ==
    [city |-> "city", country |-> "country", street1 |-> "line1",
     street2 |-> "line2", zipCode |-> "postal_code", state |-> "state"]

format_address_keep_falsy(addr) ==
    IF ~DictTruthy(addr)
    THEN addr
    ELSE LET kept == {k \in DOMAIN addr : k \in DOMAIN field_mapping /\ addr[k] # ""}
         IN  [nk \in {field_mapping[k] : k \in kept} |->
                 addr[CHOOSE k \in kept : field_mapping[k] = nk]]

format_address(addr) ==
    IF ~DictTruthy(addr)
    THEN EmptyDict
    ELSE LET kept == {k \in DOMAIN addr : k \in DOMAIN field_mapping /\ addr[k] # ""}
         IN  [nk \in {field_mapping[k] : k \in kept} |->
                 addr[CHOOSE k \in kept : field_mapping[k] = nk]]

\* The application address keys, and one key the mapping does not know
\* (it is the name of an output key).
AddressKeys == {"city", "country", "street1", "street2", "zipCode", "state", "line1"}
AddressValues == {""} \cup {"v" \o ToString(i) : i \in 1..NumAddrValues}
AddressDicts == UNION {[ks -> AddressValues] : ks \in SUBSET AddressKeys}
AddressArgs == {NoneDict} \cup AddressDicts

InitAddr ==
    /\ address \in AddressArgs
    /\ formatted = Unset
    /\ fa_pc = "ready"

FormatAddress ==
    /\ fa_pc = "ready"
    /\ formatted' = format_address(address)
    /\ fa_pc' = "done"
    /\ UNCHANGED address

-----------------------------------------------------------------------------
(* Exceptions *)

\* StripeError.__init__: super().__init__(self.message) makes str(e) the message
StripeError_args_cause(message, stripe_error) ==
    [type |-> "StripeError", message |-> message, stripe_error |-> stripe_error,
     args |-> stripe_error.args]

StripeError(message, stripe_error) ==
    [type |-> "StripeError", message |-> message, stripe_error |-> stripe_error,
     args |-> message]

\* str(e) of an exception
ExcStr(e) == e.args

\* what the remote call raises when the transport fails
TransportError == [type |-> "APIConnectionError", args |-> "Connection error"]

\* what the remote service raises for an id it does not hold
NotFoundError(customer_id) ==
    [type |-> "InvalidRequestError", args |-> "No such customer: '" \o customer_id \o "'"]

-----------------------------------------------------------------------------
(* The remote customer directory, as the SDK calls see it.  A call yields   *)
(* one of a set of responses: a value with the directory after the call, or *)
(* an exception with the directory as it was.                               *)

CusId(n) == "cus_" \o ToString(n)

Ok(value, dir, nid) == [ok |-> TRUE, value |-> value, dir |-> dir, nid |-> nid]
Fail(exc) == [ok |-> FALSE, exc |-> exc, dir |-> directory, nid |-> nextId]

Reverse(s) == [i \in 1..Len(s) |-> s[Len(s) + 1 - i]]
Take(s, n) == SubSeq(s, 1, IF n < Len(s) THEN n ELSE Len(s))
Ids(dir) == {dir[i].id : i \in 1..Len(dir)}
IndexOf(dir, customer_id) == CHOOSE i \in 1..Len(dir) : dir[i].id = customer_id

\* customers.create(params): the new record carries the submitted fields
customers_create(params) ==
    LET customer == [id |-> CusId(nextId), email |-> params.email,
                     name |-> params.name, phone |-> params.phone,
                     address |-> IF "address" \in DOMAIN params
                                 THEN params.address ELSE NoneDict]
    IN  {Fail(TransportError)} \cup
        (IF nextId <= MaxCustomers
         THEN {Ok(customer, Append(directory, customer), nextId + 1)}
         ELSE {})

\* customers.retrieve(id)
customers_retrieve(customer_id) ==
    {Fail(TransportError)} \cup
    (IF customer_id \in Ids(directory)
     THEN {Ok(directory[IndexOf(directory, customer_id)], directory, nextId)}
     ELSE {Fail(NotFoundError(customer_id))})

\* customers.list(params): newest first, filtered by email when one is
\* submitted (a None value is not sent), after the cursor, at most limit
customers_list(params) ==
    LET hasEmail == "email" \in DOMAIN params /\ params.email # None
        newestFirst == Reverse(directory)
        matching == SelectSeq(newestFirst,
                        LAMBDA c : hasEmail => c.email = params.email)
        hasCursor == "starting_after" \in DOMAIN params
        afterCursor ==
            IF hasCursor
            THEN SubSeq(matching, IndexOf(matching, params.starting_after) + 1,
                        Len(matching))
            ELSE matching
        page == [object |-> "list", data |-> Take(afterCursor, params.limit)]
    IN  {Fail(TransportError)} \cup
        (IF hasCursor /\ params.starting_after \notin Ids(matching)
         THEN {Fail(NotFoundError(params.starting_after))}
         ELSE {Ok(page, directory, nextId)})

\* customers.update(id, params): only the submitted fields change
customers_update(customer_id, params) ==
    {Fail(TransportError)} \cup
    (IF customer_id \in Ids(directory)
     THEN LET i == IndexOf(directory, customer_id)
              old == directory[i]
              new == [f \in DOMAIN old |->
                         IF f \in DOMAIN params THEN params[f] ELSE old[f]]
          IN  {Ok(new, [directory EXCEPT ![i] = new], nextId)}
     ELSE {Fail(NotFoundError(customer_id))})

\* customers.delete(id): the service reports whether it deleted the record
customers_delete(customer_id) ==
    {Fail(TransportError)} \cup
    (IF customer_id \in Ids(directory)
     THEN {Ok([id |-> customer_id, deleted |-> TRUE],
              SelectSeq(directory, LAMBDA c : c.id # customer_id), nextId),
           Ok([id |-> customer_id, deleted |-> FALSE], directory, nextId)}
     ELSE {Fail(NotFoundError(customer_id))})

\* payment_methods.attach(id, customer=...)
payment_methods_attach(payment_method_id, customer_id) ==
    {Fail(TransportError)} \cup
    (IF customer_id \in Ids(directory)
     THEN {Ok([id |-> payment_method_id, customer |-> customer_id],
              directory, nextId)}
     ELSE {Fail(NotFoundError(customer_id))})

-----------------------------------------------------------------------------
(* StripeClient.  An operation yields one of a set of outcomes: the remote *)
(* call it issued, the remote response, and the operation's own result (a  *)
(* returned value or a raised exception).                                  *)

Return(value) == [raised |-> FALSE, value |-> value]
Raise(exc) == [raised |-> TRUE, exc |-> exc]

Outcome(api, params, r, result) ==
    [call |-> [api |-> api, params |-> params], remote |-> r, result |-> result]

core_logger_info_propagates(sink_failed) ==
    IF sink_failed
    THEN Raise([type |-> "OSError", args |-> "sink write failed"])
    ELSE Return(None)

\* core_logger.info(...): the sink is added with loguru's default catch, so an
\* error while the sink handles the entry is not raised to the caller
core_logger_info(sink_failed) == Return(None)

\* the log call that precedes the try block of every operation: the entry
\* is attempted, its sink may fail, and the remote call follows unless the
\* log call raised
Logged(entry, outcomes) ==
    {LET logged == core_logger_info(sink_failed)
         log == [entry |-> entry, sink_failed |-> sink_failed]
     IN  IF logged.raised
         THEN [log |-> log, issued |-> FALSE, call |-> o.call,
               remote |-> Fail(logged.exc), result |-> Raise(logged.exc)]
         ELSE [log |-> log, issued |-> TRUE, call |-> o.call,
               remote |-> o.remote, result |-> o.result]
     : o \in outcomes, sink_failed \in BOOLEAN}

create_customer_swapped(email, company_name, phone, addr) ==
    LET stripe_address == format_address(addr)
        base == [email |-> email, name |-> phone, phone |-> company_name]
        params == IF DictTruthy(stripe_address)
                  THEN base @@ [address |-> stripe_address]
                  ELSE base
    IN  Logged(<<"Creating Stripe customer with params: ", params>>,
        {Outcome("customers.create", params, r,
            IF r.ok
            THEN Return(r.value)
            ELSE Raise(StripeError(
                     "Error when creating Stripe customer: " \o ExcStr(r.exc), r.exc)))
         : r \in customers_create(params)})

create_customer_always_address(email, company_name, phone, addr) ==
    LET stripe_address == format_address(addr)
        base == [email |-> email, name |-> company_name, phone |-> phone]
        params == base @@ [address |-> stripe_address]
    IN  Logged(<<"Creating Stripe customer with params: ", params>>,
        {Outcome("customers.create", params, r,
            IF r.ok
            THEN Return(r.value)
            ELSE Raise(StripeError(
                     "Error when creating Stripe customer: " \o ExcStr(r.exc), r.exc)))
         : r \in customers_create(params)})

create_customer(email, company_name, phone, addr) ==
    LET stripe_address == format_address(addr)
        base == [email |-> email, name |-> company_name, phone |-> phone]
        params == IF DictTruthy(stripe_address)
                  THEN base @@ [address |-> stripe_address]
                  ELSE base
    IN  Logged(<<"Creating Stripe customer with params: ", params>>,
        {Outcome("customers.create", params, r,
            IF r.ok
            THEN Return(r.value)
            ELSE Raise(StripeError(
                     "Error when creating Stripe customer: " \o ExcStr(r.exc), r.exc)))
         : r \in customers_create(params)})

get_customer_by_id_reraise(customer_id) ==
    Logged("Retrieving Stripe customer with ID " \o PyStr(customer_id),
        {Outcome("customers.retrieve", customer_id, r,
        IF r.ok THEN Return(r.value) ELSE Raise(r.exc))
     : r \in customers_retrieve(customer_id)})

get_customer_by_id(customer_id) ==
    Logged("Retrieving Stripe customer with ID " \o PyStr(customer_id),
        {Outcome("customers.retrieve", customer_id, r,
        IF r.ok
        THEN Return(r.value)
        ELSE Raise(StripeError(
                 "Error when retrieving Stripe customer " \o PyStr(customer_id)
                     \o ": " \o ExcStr(r.exc), r.exc)))
     : r \in customers_retrieve(customer_id)})

get_customers_by_email_no_filter(email) ==
    LET params == [limit |-> 1]
    IN  Logged("Searching for Stripe customers with email " \o PyStr(email),
        {Outcome("customers.list", params @@ [email |-> email], r,
            IF r.ok
            THEN Return(r.value)
            ELSE Raise(StripeError(
                     "Error when searching for Stripe customers with email "
                         \o PyStr(email) \o ": " \o ExcStr(r.exc), r.exc)))
         : r \in customers_list(params)})

get_customers_by_email(email) ==
    LET params == [limit |-> 1, email |-> email]
    IN  Logged("Searching for Stripe customers with email " \o PyStr(email),
        {Outcome("customers.list", params, r,
            IF r.ok
            THEN Return(r.value)
            ELSE Raise(StripeError(
                     "Error when searching for Stripe customers with email "
                         \o PyStr(email) \o ": " \o ExcStr(r.exc), r.exc)))
         : r \in customers_list(params)})

list_customers(limit, starting_after) ==
    LET base == [limit |-> limit]
        params == IF StrTruthy(starting_after)
                  THEN base @@ [starting_after |-> starting_after]
                  ELSE base
    IN  Logged("Listing Stripe customers with limit " \o ToString(limit)
            \o " and starting_after " \o PyStr(starting_after),
        {Outcome("customers.list", params, r,
            IF r.ok
            THEN Return(r.value)
            ELSE Raise(StripeError(
                     "Error when listing Stripe customers: " \o ExcStr(r.exc), r.exc)))
         : r \in customers_list(params)})

update_customer(customer_id, update_params) ==
    Logged(<<"Updating Stripe customer " \o PyStr(customer_id) \o " with params: ",
        update_params>>,
        {Outcome("customers.update", <<customer_id, update_params>>, r,
        IF r.ok
        THEN Return(r.value)
        ELSE Raise(StripeError(
                 "Error when updating Stripe customer " \o PyStr(customer_id)
                     \o ": " \o ExcStr(r.exc), r.exc)))
     : r \in customers_update(customer_id, update_params)})

attach_payment_method(payment_method_id, customer_id) ==
    Logged("Attaching payment method " \o PyStr(payment_method_id)
            \o " to customer " \o PyStr(customer_id),
        {Outcome("payment_methods.attach", <<payment_method_id, customer_id>>, r,
        IF r.ok
        THEN Return(r.value)
        ELSE Raise(StripeError(
                 "Error attaching payment method " \o PyStr(payment_method_id)
                     \o " to customer " \o PyStr(customer_id)
                     \o ": " \o ExcStr(r.exc), r.exc)))
     : r \in payment_methods_attach(payment_method_id, customer_id)})

delete_customer(customer_id) ==
    Logged("Deleting Stripe customer with ID " \o PyStr(customer_id),
        {Outcome("customers.delete", customer_id, r,
        IF r.ok
        THEN Return(r.value)
        ELSE Raise(StripeError(
                 "Error when deleting Stripe customer " \o PyStr(customer_id)
                     \o ": " \o ExcStr(r.exc), r.exc)))
     : r \in customers_delete(customer_id)})

-----------------------------------------------------------------------------
(* Request handlers.  An invocation runs in a slot: "start" (entered, no   *)
(* remote call yet), "searched" (the email search returned), "done".       *)

Procs == {1}

\* the response record; data and error_code default to None
CustomerApiResponse(success, message, response_data, error_code, status_code) ==
    [success |-> success, message |-> message, data |-> response_data,
     error_code |-> error_code, status_code |-> status_code]

Running == [how |-> "running"]
Returned(value) == [how |-> "return", value |-> value]
ReturnedNone == [how |-> "return_none"]
Propagated(exc) == [how |-> "raise", exc |-> exc]
NoResp == [object |-> "none"]

\* except StripeError as e: the response for a caught error, or the error
\* itself leaving the handler when the clause does not match it
except_StripeError(e) ==
    IF e.type = "StripeError"
    THEN Returned(CustomerApiResponse(FALSE, ExcStr(e), NoneDict, "STRIPE_ERROR", 500))
    ELSE Propagated(e)

\* `customer and len(customer) > 0` on the search's data list
no_existing_check(customer) == FALSE

has_customer_more_than_one(customer) == customer # <<>> /\ Len(customer) > 1

has_customer_always(customer) == TRUE

has_customer(customer) == customer # <<>> /\ Len(customer) > 0

\* subscripting a list with a str key
list_getitem_str(lst, key) ==
    Raise([type |-> "TypeError",
           args |-> "list indices must be integers or slices, not str"])

Emails == {"a@example.com", "b@example.com"}
EmailParts == {EmptyDict, [email |-> ""]} \cup {[email |-> e] : e \in Emails}
Profiles ==
    {EmptyDict,
     [company_name |-> "Test Company", phone |-> "+15555555555",
      address |-> [city |-> "v1", street1 |-> "v2", street2 |-> "", line1 |-> "v1"]],
     [company_name |-> "Updated Test Company", phone |-> "+15551234567",
      address |-> EmptyDict]}
CreateInputs == {e @@ pr : e \in EmailParts, pr \in Profiles}
DeleteInputs == EmailParts

StartCreate(p) ==
    /\ pc[p] \in {"idle", "done"}
    /\ \E d \in CreateInputs : data' = [data EXCEPT ![p] = d]
    /\ kind' = [kind EXCEPT ![p] = "create"]
    /\ pc' = [pc EXCEPT ![p] = "start"]
    /\ resp' = [resp EXCEPT ![p] = NoResp]
    /\ calls' = [calls EXCEPT ![p] = <<>>]
    /\ ret' = [ret EXCEPT ![p] = Running]
    /\ UNCHANGED <<addrVars, svcVars, op>>

StartDelete(p) ==
    /\ pc[p] \in {"idle", "done"}
    /\ \E d \in DeleteInputs : data' = [data EXCEPT ![p] = d]
    /\ kind' = [kind EXCEPT ![p] = "delete"]
    /\ pc' = [pc EXCEPT ![p] = "start"]
    /\ resp' = [resp EXCEPT ![p] = NoResp]
    /\ calls' = [calls EXCEPT ![p] = <<>>]
    /\ ret' = [ret EXCEPT ![p] = Running]
    /\ UNCHANGED <<addrVars, svcVars, op>>

CreateSearch_swallow(p) ==
    /\ pc[p] = "start" /\ kind[p] = "create"
    /\ LET email == DictGet(data[p], "email")
       IN  \E o \in get_customers_by_email(email) :
               /\ calls' = [calls EXCEPT ![p] = Append(@, o)]
               /\ directory' = o.remote.dir
               /\ nextId' = o.remote.nid
               /\ resp' = [resp EXCEPT ![p] =
                              IF o.result.raised
                              THEN [object |-> "list", data |-> <<>>]
                              ELSE o.result.value]
               /\ pc' = [pc EXCEPT ![p] = "searched"]
               /\ UNCHANGED ret
    /\ UNCHANGED <<addrVars, kind, data, op>>

\* create_customer_function up to the search's return
CreateSearch(p) ==
    /\ pc[p] = "start" /\ kind[p] = "create"
    /\ LET email == DictGet(data[p], "email")
       IN  \E o \in get_customers_by_email(email) :
               /\ calls' = [calls EXCEPT ![p] = Append(@, o)]
               /\ directory' = o.remote.dir
               /\ nextId' = o.remote.nid
               /\ IF o.result.raised
                  THEN /\ ret' = [ret EXCEPT ![p] = except_StripeError(o.result.exc)]
                       /\ pc' = [pc EXCEPT ![p] = "done"]
                       /\ UNCHANGED resp
                  ELSE /\ resp' = [resp EXCEPT ![p] = o.result.value]
                       /\ pc' = [pc EXCEPT ![p] = "searched"]
                       /\ UNCHANGED ret
    /\ UNCHANGED <<addrVars, kind, data, op>>

\* create_customer_function from the existing-customer check to its return
CreateMutate(p) ==
    /\ pc[p] = "searched" /\ kind[p] = "create"
    /\ LET email == DictGet(data[p], "email")
           company_name == DictGet(data[p], "company_name")
           phone == DictGet(data[p], "phone")
           addr == DictGetDict(data[p], "address")
           customer == resp[p].data
       IN  IF has_customer(customer)
           THEN /\ ret' = [ret EXCEPT ![p] = Returned(CustomerApiResponse(FALSE,
                            "Customer with email " \o PyStr(email) \o " already exists",
                            NoneDict, "CUSTOMER_EXISTS", 400))]
                /\ UNCHANGED <<calls, svcVars>>
           ELSE \E o \in create_customer(email, company_name, phone, addr) :
                    /\ calls' = [calls EXCEPT ![p] = Append(@, o)]
                    /\ directory' = o.remote.dir
                    /\ nextId' = o.remote.nid
                    /\ ret' = [ret EXCEPT ![p] =
                                  IF o.result.raised
                                  THEN except_StripeError(o.result.exc)
                                  ELSE Returned(CustomerApiResponse(TRUE,
                                           "Customer created successfully",
                                           o.result.value, None, 201))]
    /\ pc' = [pc EXCEPT ![p] = "done"]
    /\ UNCHANGED <<addrVars, kind, data, resp, op>>

\* delete_customer_by_email_function up to the search's return
DeleteSearch(p) ==
    /\ pc[p] = "start" /\ kind[p] = "delete"
    /\ LET email == DictGet(data[p], "email")
       IN  IF ~StrTruthy(email)
           THEN /\ ret' = [ret EXCEPT ![p] = Returned(CustomerApiResponse(FALSE,
                            "Email is required for deleting a customer",
                            NoneDict, None, 400))]
                /\ pc' = [pc EXCEPT ![p] = "done"]
                /\ UNCHANGED <<calls, svcVars, resp>>
           ELSE \E o \in get_customers_by_email(email) :
                    /\ calls' = [calls EXCEPT ![p] = Append(@, o)]
                    /\ directory' = o.remote.dir
                    /\ nextId' = o.remote.nid
                    /\ IF o.result.raised
                       THEN /\ ret' = [ret EXCEPT ![p] = except_StripeError(o.result.exc)]
                            /\ pc' = [pc EXCEPT ![p] = "done"]
                            /\ UNCHANGED resp
                       ELSE /\ resp' = [resp EXCEPT ![p] = o.result.value]
                            /\ pc' = [pc EXCEPT ![p] = "searched"]
                            /\ UNCHANGED ret
    /\ UNCHANGED <<addrVars, kind, data, op>>

\* delete_customer_by_email_function from the match check to its end
DeleteMutate(p) ==
    /\ pc[p] = "searched" /\ kind[p] = "delete"
    /\ LET email == DictGet(data[p], "email")
           customer == resp[p].data
       IN  IF has_customer(customer)
           THEN LET customer_id == list_getitem_str(customer, "id")
                IN  IF customer_id.raised
                    THEN /\ ret' = [ret EXCEPT ![p] = except_StripeError(customer_id.exc)]
                         /\ UNCHANGED <<calls, svcVars>>
                    ELSE \E o \in delete_customer(customer_id.value) :
                             /\ calls' = [calls EXCEPT ![p] = Append(@, o)]
                             /\ directory' = o.remote.dir
                             /\ nextId' = o.remote.nid
                             /\ ret' = [ret EXCEPT ![p] =
                                  IF o.result.raised
                                  THEN except_StripeError(o.result.exc)
                                  ELSE IF o.result.value.deleted
                                  THEN Returned(CustomerApiResponse(TRUE,
                                           "Customer with email " \o PyStr(email)
                                               \o " deleted successfully",
                                           NoneDict, None, 200))
                                  ELSE Returned(CustomerApiResponse(FALSE,
                                           "Customer with email " \o PyStr(email)
                                               \o " could not be deleted",
                                           NoneDict, None, 500))]
           ELSE /\ ret' = [ret EXCEPT ![p] = ReturnedNone]
                /\ UNCHANGED <<calls, svcVars>>
    /\ pc' = [pc EXCEPT ![p] = "done"]
    /\ UNCHANGED <<addrVars, kind, data, resp, op>>

-----------------------------------------------------------------------------
(* Initial states *)

Seed(i, email) ==
    [id |-> CusId(i), email |-> email, name |-> "dummy_company",
     phone |-> "+15555555555", address |-> NoneDict]

\* directories holding at most one customer per email, with room for a create
InitDirectories ==
    UNION {{[i \in 1..n |-> Seed(i, es[i])] :
               es \in {f \in [1..n -> Emails] :
                          \A i, j \in 1..n : i # j => f[i] # f[j]}}
           : n \in 0..(MaxCustomers - 1)}

NoOp == [name |-> "none"]

AddrIdle ==
    /\ address = NoneDict
    /\ formatted = Unset
    /\ fa_pc = "done"

HandlersIdle ==
    /\ pc = [p \in Procs |-> "idle"]
    /\ kind = [p \in Procs |-> "none"]
    /\ data = [p \in Procs |-> EmptyDict]
    /\ resp = [p \in Procs |-> NoResp]
    /\ calls = [p \in Procs |-> <<>>]
    /\ ret = [p \in Procs |-> Running]

SvcInit ==
    /\ directory \in InitDirectories
    /\ nextId = Len(directory) + 1

\* Handlers invoked one after another against the directory
Init ==
    /\ SvcInit
    /\ HandlersIdle
    /\ AddrIdle
    /\ op = NoOp

Next ==
    \E p \in Procs :
        \/ StartCreate(p)
        \/ StartDelete(p)
        \/ CreateSearch(p)
        \/ CreateMutate(p)
        \/ DeleteSearch(p)
        \/ DeleteMutate(p)

Spec == Init /\ [][Next]_vars

\* format_address applied to one argument
AddrInit ==
    /\ InitAddr
    /\ directory = <<>>
    /\ nextId = 1
    /\ HandlersIdle
    /\ op = NoOp

AddrNext == FormatAddress /\ UNCHANGED <<svcVars, handlerVars, op>>

SpecAddr == AddrInit /\ [][AddrNext]_vars

-----------------------------------------------------------------------------
(* StripeClient operations called directly *)

DefaultLimit == 100

CustomerIds == {CusId(i) : i \in 1..MaxCustomers} \cup {"cus_nonexistent"}
UpdateParams == {[name |-> "Updated Test Company", phone |-> "+15551234567"]}
ClientCreateInputs ==
    {d \in CreateInputs :
        \/ DOMAIN d = {}
        \/ DOMAIN d = {"email", "company_name", "phone", "address"}
              /\ d.email = "a@example.com" /\ DictTruthy(d.address)}

Ran(name, o) ==
    /\ op' = [name |-> name, log |-> o.log, issued |-> o.issued, call |-> o.call,
              remote |-> o.remote, result |-> o.result]
    /\ directory' = o.remote.dir
    /\ nextId' = o.remote.nid
    /\ UNCHANGED <<addrVars, handlerVars>>

OpCreateCustomer ==
    \E d \in ClientCreateInputs :
        \E o \in create_customer(DictGet(d, "email"), DictGet(d, "company_name"),
                                 DictGet(d, "phone"), DictGetDict(d, "address")) :
            Ran("create_customer", o)

OpGetCustomerById ==
    \E id \in CustomerIds : \E o \in get_customer_by_id(id) :
        Ran("get_customer_by_id", o)

OpGetCustomersByEmail ==
    \E e \in Emails : \E o \in get_customers_by_email(e) :
        Ran("get_customers_by_email", o)

OpListCustomers ==
    \E limit \in {1, DefaultLimit} : \E cursor \in {None} \cup CustomerIds :
        \E o \in list_customers(limit, cursor) :
            Ran("list_customers", o)

OpUpdateCustomer ==
    \E id \in CustomerIds : \E u \in UpdateParams : \E o \in update_customer(id, u) :
        Ran("update_customer", o)

OpAttachPaymentMethod ==
    \E id \in CustomerIds : \E o \in attach_payment_method("pm_card_visa", id) :
        Ran("attach_payment_method", o)

OpDeleteCustomer ==
    \E id \in CustomerIds : \E o \in delete_customer(id) :
        Ran("delete_customer", o)

ClientNext ==
    \/ OpCreateCustomer
    \/ OpGetCustomerById
    \/ OpGetCustomersByEmail
    \/ OpListCustomers
    \/ OpUpdateCustomer
    \/ OpAttachPaymentMethod
    \/ OpDeleteCustomer

SpecClient == Init /\ [][ClientNext]_vars

-----------------------------------------------------------------------------
(* Two create_customer_function invocations for one email whose directory  *)
(* calls interleave freely                                                 *)

ConcProcs == {1, 2}
ConcInputs ==
    {d \in CreateInputs :
        /\ DOMAIN d = {"email", "company_name", "phone", "address"}
        /\ d.email = "a@example.com"}

ConcInit ==
    /\ SvcInit
    /\ pc = [p \in ConcProcs |-> "idle"]
    /\ kind = [p \in ConcProcs |-> "none"]
    /\ data = [p \in ConcProcs |-> EmptyDict]
    /\ resp = [p \in ConcProcs |-> NoResp]
    /\ calls = [p \in ConcProcs |-> <<>>]
    /\ ret = [p \in ConcProcs |-> Running]
    /\ AddrIdle
    /\ op = NoOp

ConcStart(p) ==
    /\ pc[p] = "idle"
    /\ \E d \in ConcInputs : data' = [data EXCEPT ![p] = d]
    /\ kind' = [kind EXCEPT ![p] = "create"]
    /\ pc' = [pc EXCEPT ![p] = "start"]
    /\ UNCHANGED <<addrVars, svcVars, resp, calls, ret, op>>

ConcNext ==
    \E p \in ConcProcs :
        \/ ConcStart(p)
        \/ CreateSearch(p)
        \/ CreateMutate(p)

SpecConc == ConcInit /\ [][ConcNext]_vars

-----------------------------------------------------------------------------
(* StripeClient.create_customer called once with each address argument *)

CreateArgs ==
    {[email |-> "a@example.com", company_name |-> "Test Company",
      phone |-> "+15555555555"],
     [email |-> None, company_name |-> None, phone |-> None]}

CreateInit ==
    /\ address \in AddressArgs
    /\ formatted = Unset
    /\ fa_pc = "done"
    /\ directory = <<>>
    /\ nextId = 1
    /\ HandlersIdle
    /\ op = NoOp

CreateWithAddress ==
    /\ op = NoOp
    /\ \E a \in CreateArgs :
           \E o \in create_customer(a.email, a.company_name, a.phone, address) :
               /\ op' = [name |-> "create_customer", args |-> a, log |-> o.log,
                         issued |-> o.issued, call |-> o.call, remote |-> o.remote,
                         result |-> o.result]
               /\ directory' = o.remote.dir
               /\ nextId' = o.remote.nid
    /\ UNCHANGED <<addrVars, handlerVars>>

SpecCreate == CreateInit /\ [][CreateWithAddress]_vars

-----------------------------------------------------------------------------
(* Properties *)

Done(p, k) == pc[p] = "done" /\ kind[p] = k
Searched(p) == resp[p] # NoResp
HasKey(d, key) == key \in DOMAIN d
\* the email as the handler's messages print it
Printed(d) == IF HasKey(d, "email") THEN d.email ELSE "None"
Issued(p, api) == \E i \in 1..Len(calls[p]) : calls[p][i].call.api = api
NoDuplicateEmail(dir) ==
    \A i, j \in 1..Len(dir) : i # j => dir[i].email # dir[j].email

\* C1: a create invocation whose search returned a non-empty data list
\* returns success=false, "Customer with email <email> already exists",
\* CUSTOMER_EXISTS, 400, and issues no create call.
C1_ExistingRejected ==
    \A p \in Procs :
        (Done(p, "create") /\ Searched(p) /\ resp[p].data # <<>>) =>
            /\ ret[p].how = "return"
            /\ ret[p].value.success = FALSE
            /\ ret[p].value.message =
                   "Customer with email " \o Printed(data[p]) \o " already exists"
            /\ ret[p].value.error_code = "CUSTOMER_EXISTS"
            /\ ret[p].value.status_code = 400
            /\ ~Issued(p, "customers.create")

C1_Witness ==
    \E p \in Procs :
        /\ Done(p, "create") /\ Searched(p) /\ Len(resp[p].data) = 1
        /\ HasKey(data[p], "email") /\ resp[p].data[1].email = data[p].email
        /\ ret[p].how = "return" /\ ret[p].value.status_code = 400

\* C2: a create invocation whose search returned no data and whose create
\* call succeeded returns success=true, "Customer created successfully",
\* 201, and as data the record the directory created, whose email, name and
\* phone are the input's email, company_name and phone.
C2_CreatedReturned ==
    \A p \in Procs :
        (/\ Done(p, "create") /\ Searched(p) /\ resp[p].data = <<>>
         /\ Len(calls[p]) = 2 /\ calls[p][2].remote.ok) =>
            /\ ret[p].how = "return"
            /\ ret[p].value.success = TRUE
            /\ ret[p].value.message = "Customer created successfully"
            /\ ret[p].value.status_code = 201
            /\ ret[p].value.data = calls[p][2].remote.value
            /\ ret[p].value.data = directory[Len(directory)]
            /\ ret[p].value.data.email = DictGet(data[p], "email")
            /\ ret[p].value.data.name = DictGet(data[p], "company_name")
            /\ ret[p].value.data.phone = DictGet(data[p], "phone")

C2_Witness ==
    \E p \in Procs :
        /\ Done(p, "create") /\ Len(calls[p]) = 2 /\ calls[p][2].remote.ok
        /\ ret[p].how = "return" /\ ret[p].value.status_code = 201
        /\ ret[p].value.data.email = "a@example.com"
        /\ ret[p].value.data.name = "Test Company"
        /\ ret[p].value.data.phone = "+15555555555"

\* C3: across handler invocations run one after another from a directory
\* with at most one customer per email, the directory keeps at most one
\* customer per email.
C3_OnePerEmail == NoDuplicateEmail(directory)

C3_Witness ==
    \E p \in Procs :
        /\ Done(p, "create") /\ Searched(p) /\ resp[p].data # <<>>
        /\ ret[p].how = "return" /\ ret[p].value.error_code = "CUSTOMER_EXISTS"
        /\ Len(directory) = MaxCustomers
        /\ \E i \in 1..Len(directory) : directory[i].email = DictGet(data[p], "email")

\* C4: a delete invocation whose search found a match calls delete_customer
\* with the first match's id and returns 200 "deleted successfully" when the
\* service reports deleted=true, 500 "could not be deleted" otherwise.
C4_DeleteFirstMatch ==
    \A p \in Procs :
        (Done(p, "delete") /\ Searched(p) /\ resp[p].data # <<>>) =>
            /\ Len(calls[p]) = 2
            /\ calls[p][2].call.api = "customers.delete"
            /\ calls[p][2].call.params = resp[p].data[1].id
            /\ calls[p][2].remote.ok =>
                   /\ ret[p].how = "return"
                   /\ ret[p].value.success = calls[p][2].remote.value.deleted
                   /\ ret[p].value.status_code =
                          IF calls[p][2].remote.value.deleted THEN 200 ELSE 500
                   /\ ret[p].value.message =
                          "Customer with email " \o Printed(data[p]) \o
                          (IF calls[p][2].remote.value.deleted
                           THEN " deleted successfully"
                           ELSE " could not be deleted")

\* C5: a delete invocation whose input has no email, or an empty one,
\* returns success=false, "Email is required for deleting a customer", 400,
\* and makes no directory call.
C5_MissingEmail ==
    \A p \in Procs :
        (Done(p, "delete") /\ (~HasKey(data[p], "email") \/ data[p].email = "")) =>
            /\ ret[p].how = "return"
            /\ ret[p].value.success = FALSE
            /\ ret[p].value.message = "Email is required for deleting a customer"
            /\ ret[p].value.status_code = 400
            /\ calls[p] = <<>>

C5_Witness ==
    \E p \in Procs :
        /\ Done(p, "delete") /\ HasKey(data[p], "email") /\ data[p].email = ""
        /\ ret[p].how = "return" /\ ret[p].value.status_code = 400
        /\ directory # <<>>

\* C6: in either handler, a directory client call that fails with
\* StripeError makes the handler return success=false, STRIPE_ERROR, 500,
\* with the error's text as message.
C6_StripeErrorResponse ==
    \A p \in Procs :
        \A i \in 1..Len(calls[p]) :
            (pc[p] = "done" /\ calls[p][i].result.raised
                 /\ calls[p][i].result.exc.type = "StripeError") =>
                /\ ret[p].how = "return"
                /\ ret[p].value.success = FALSE
                /\ ret[p].value.error_code = "STRIPE_ERROR"
                /\ ret[p].value.status_code = 500
                /\ ret[p].value.message = calls[p][i].result.exc.message
                /\ ret[p].value.message =
                       IF i = 1
                       THEN "Error when searching for Stripe customers with email "
                                \o Printed(data[p]) \o ": Connection error"
                       ELSE "Error when creating Stripe customer: Connection error"

C6_Witness ==
    \E p \in Procs :
        /\ Done(p, "create") /\ Len(calls[p]) = 2
        /\ calls[p][2].call.api = "customers.create"
        /\ calls[p][2].result.raised
        /\ ret[p].how = "return" /\ ret[p].value.error_code = "STRIPE_ERROR"

C6_WitnessDelete ==
    \E p \in Procs :
        /\ Done(p, "delete") /\ Len(calls[p]) = 1
        /\ calls[p][1].result.raised
        /\ ret[p].how = "return" /\ ret[p].value.error_code = "STRIPE_ERROR"

\* C7: every handler invocation ends by returning a response record, never
\* by raising.
C7_AlwaysResponse ==
    \A p \in Procs : pc[p] = "done" => ret[p].how = "return"

\* C8: a client operation whose remote call raised raises StripeError with
\* the original exception as stripe_error and its text inside the message;
\* retrieving an id the directory does not hold raises StripeError with the
\* provider's not-found text.
C8_WrappedAsStripeError ==
    (op.name # "none" /\ ~op.remote.ok) =>
        /\ op.result.raised
        /\ op.result.exc.type = "StripeError"
        /\ op.result.exc.stripe_error = op.remote.exc
        /\ Contains(op.result.exc.message, op.remote.exc.args)
        /\ Contains(op.result.exc.args, op.remote.exc.args)
        /\ (op.name = "get_customer_by_id"
                /\ op.remote.exc.type = "InvalidRequestError") =>
               Contains(op.result.exc.args, "No such customer")

C8_Witness ==
    /\ op.name = "get_customer_by_id"
    /\ ~op.remote.ok
    /\ op.remote.exc.type = "InvalidRequestError"
    /\ op.call.params = "cus_nonexistent"
    /\ op.result.raised /\ op.result.exc.type = "StripeError"

\* C9: for an address mapping, format_address returns only keys among city,
\* country, line1, line2, postal_code, state; each is present exactly when
\* its source key is present with a non-empty value, and carries that value.
StripeKeys == {"city", "country", "line1", "line2", "postal_code", "state"}
SourceOf ==
    [city |-> "city", country |-> "country", line1 |-> "street1",
     line2 |-> "street2", postal_code |-> "zipCode", state |-> "state"]

C9_FormatAddress ==
    (fa_pc = "done" /\ address # NoneDict /\ formatted # Unset) =>
        /\ DOMAIN formatted \subseteq StripeKeys
        /\ \A nk \in StripeKeys :
               /\ nk \in DOMAIN formatted <=>
                      (SourceOf[nk] \in DOMAIN address /\ address[SourceOf[nk]] # "")
               /\ nk \in DOMAIN formatted => formatted[nk] = address[SourceOf[nk]]

C9_Witness ==
    /\ fa_pc = "done" /\ address # NoneDict /\ formatted # Unset
    /\ DOMAIN address = AddressKeys
    /\ address["street2"] = "" /\ address["street1"] = "v1" /\ address["line1"] = "v2"
    /\ DOMAIN formatted = StripeKeys \ {"line2"}
    /\ formatted["line1"] = "v1"

\* C10: format_address returns the empty mapping for None and for the empty
\* mapping.
C10_EmptyAddress ==
    (fa_pc = "done" /\ formatted # Unset
         /\ (address = NoneDict \/ address = EmptyDict)) =>
        formatted = EmptyDict

C10_Witness ==
    fa_pc = "done" /\ address = NoneDict /\ formatted = EmptyDict

C10_WitnessEmpty ==
    fa_pc = "done" /\ address = EmptyDict /\ formatted = EmptyDict

\* C11: get_customers_by_email(email) returns a page with a data list; when
\* the directory holds a customer with that email the list is non-empty and
\* its first element is such a customer, with that customer's id; when it
\* holds none the list is empty.
WithEmail(dir, email) == {i \in 1..Len(dir) : dir[i].email = email}

C11_SearchByEmail ==
    (op.name = "get_customers_by_email" /\ op.remote.ok) =>
        /\ ~op.result.raised
        /\ "data" \in DOMAIN op.result.value
        /\ DOMAIN op.result.value.data = 1..Len(op.result.value.data)
        /\ IF WithEmail(directory, op.call.params.email) # {}
           THEN /\ Len(op.result.value.data) > 0
                /\ op.result.value.data[1].email = op.call.params.email
                /\ \E i \in WithEmail(directory, op.call.params.email) :
                       directory[i] = op.result.value.data[1]
           ELSE Len(op.result.value.data) = 0

C11_Witness ==
    /\ op.name = "get_customers_by_email" /\ op.remote.ok
    /\ Len(directory) = 2
    /\ directory[1].email = op.call.params.email
    /\ directory[2].email # op.call.params.email
    /\ op.result.value.data[1].id = directory[1].id

C11_WitnessEmpty ==
    /\ op.name = "get_customers_by_email" /\ op.remote.ok
    /\ Len(directory) > 0
    /\ WithEmail(directory, op.call.params.email) = {}
    /\ op.result.value.data = <<>>

\* C12: an invocation makes at most two directory calls; the first is the
\* email search; a create (create handler) or delete (delete handler) call
\* follows only a search that returned; a failed search is the invocation's
\* only call and leaves the directory as it was.
CallOrder(p) ==
    /\ Len(calls[p]) <= 2
    /\ Len(calls[p]) >= 1 =>
           /\ calls[p][1].call.api = "customers.list"
           /\ "email" \in DOMAIN calls[p][1].call.params
    /\ Len(calls[p]) = 2 =>
           /\ calls[p][1].remote.ok
           /\ ~calls[p][1].result.raised
           /\ calls[p][2].call.api =
                  IF kind[p] = "create" THEN "customers.create" ELSE "customers.delete"
    /\ (pc[p] = "done" /\ Len(calls[p]) >= 1 /\ calls[p][1].result.raised) =>
           Len(calls[p]) = 1

FailedSearchStep(p) ==
    /\ Len(calls[p]) = 0
    /\ Len(calls'[p]) = 1
    /\ calls'[p][1].result.raised

C12_SearchThenMutate ==
    /\ [](\A p \in Procs : CallOrder(p))
    /\ [][\A p \in Procs :
             FailedSearchStep(p) => (directory' = directory /\ pc'[p] = "done")]_vars

C12_Witness ==
    \E p \in Procs :
        /\ Done(p, "create") /\ Len(calls[p]) = 2
        /\ calls[p][1].call.api = "customers.list" /\ calls[p][1].remote.ok
        /\ calls[p][2].call.api = "customers.create" /\ calls[p][2].remote.ok

C12_WitnessFailedSearch ==
    \E p \in Procs :
        /\ Done(p, "delete") /\ Len(calls[p]) = 1 /\ calls[p][1].result.raised
        /\ directory # <<>>

C15_WitnessError ==
    /\ op.name = "create_customer"
    /\ op.log.sink_failed
    /\ op.issued /\ ~op.remote.ok
    /\ op.result.raised /\ op.result.exc.type = "StripeError"

\* C13: create_customer submits exactly email, name (the company_name) and
\* phone, and an address field equal to format_address(address) exactly when
\* that translation is non-empty; a None or empty address, or one with only
\* empty or unrecognized fields, gives a request without an address field.
RecognizedKeys == {"city", "country", "street1", "street2", "zipCode", "state"}
HasTranslatableField(addr) ==
    /\ addr # NoneDict
    /\ \E k \in DOMAIN addr : k \in RecognizedKeys /\ addr[k] # ""

C13_CreateRequestBody ==
    (op.name = "create_customer" /\ "args" \in DOMAIN op) =>
        /\ op.call.api = "customers.create"
        /\ DOMAIN op.call.params =
               {"email", "name", "phone"} \cup
               (IF HasTranslatableField(address) THEN {"address"} ELSE {})
        /\ op.call.params.email = op.args.email
        /\ op.call.params.name = op.args.company_name
        /\ op.call.params.phone = op.args.phone
        /\ "address" \in DOMAIN op.call.params =>
               /\ op.call.params.address = format_address(address)
               /\ DOMAIN op.call.params.address # {}

C13_Witness ==
    /\ op.name = "create_customer" /\ "args" \in DOMAIN op
    /\ address # NoneDict
    /\ DOMAIN address = {"city", "line1"}
    /\ address["city"] = "" /\ address["line1"] = "v1"
    /\ DOMAIN op.call.params = {"email", "name", "phone"}
    /\ op.call.params.name = "Test Company"

C13_WitnessAddress ==
    /\ op.name = "create_customer" /\ "args" \in DOMAIN op
    /\ address # NoneDict
    /\ DOMAIN address = {"street1", "street2"}
    /\ address["street1"] = "v1" /\ address["street2"] = ""
    /\ "address" \in DOMAIN op.call.params
    /\ DOMAIN op.call.params.address = {"line1"}

\* C14: a delete invocation with a non-empty email whose search returned an
\* empty data list issues no delete call, ends without returning a response
\* record, and leaves the directory unchanged.
C14_DeleteNoMatch ==
    /\ [](\A p \in Procs :
             (/\ Done(p, "delete") /\ HasKey(data[p], "email") /\ data[p].email # ""
              /\ Searched(p) /\ resp[p].data = <<>>) =>
                 /\ ret[p].how = "return_none"
                 /\ Len(calls[p]) = 1
                 /\ ~Issued(p, "customers.delete"))
    /\ [][\A p \in Procs :
             (/\ pc[p] = "searched" /\ kind[p] = "delete" /\ resp[p].data = <<>>
              /\ pc'[p] = "done") =>
                 (directory' = directory /\ calls'[p] = calls[p])]_vars

C14_Witness ==
    \E p \in Procs :
        /\ Done(p, "delete") /\ HasKey(data[p], "email")
        /\ data[p].email = "a@example.com"
        /\ Searched(p) /\ resp[p].data = <<>>
        /\ directory # <<>>
        /\ ret[p].how = "return_none"

\* C16 (as claimed): when two create invocations for one email interleave,
\* at most one of them creates a customer and the directory never holds two
\* records for that email.
Created(p) ==
    /\ Len(calls[p]) = 2
    /\ calls[p][2].call.api = "customers.create"
    /\ calls[p][2].remote.ok

C16_InterleavedGuard ==
    /\ \A p, q \in ConcProcs :
           (p # q /\ Done(p, "create") /\ Done(q, "create")
                /\ data[p].email = data[q].email) =>
               ~(Created(p) /\ Created(q))
    /\ NoDuplicateEmail(directory)

\* C16 (amended): the guard holds per invocation: a create is issued only by
\* an invocation whose own search returned an empty data list, and the
\* directory holds two records for the email only when both invocations'
\* searches returned empty and both created.
C16_GuardPerInvocation ==
    /\ \A p \in ConcProcs :
           Issued(p, "customers.create") =>
               /\ calls[p][1].call.api = "customers.list"
               /\ calls[p][1].remote.ok
               /\ resp[p].data = <<>>
    /\ ~NoDuplicateEmail(directory) =>
           \A p \in ConcProcs : Created(p) /\ resp[p].data = <<>>

C16_Witness ==
    /\ \A p \in ConcProcs :
           /\ Done(p, "create") /\ Created(p) /\ resp[p].data = <<>>
           /\ data[p].email = "a@example.com"
    /\ Len(directory) = 2
    /\ directory[1].email = "a@example.com"
    /\ directory[2].email = "a@example.com"

====
